---- MODULE Spec2Model ----
(***************************************************************************)
(* pyang-accessors: the entry-point scanner (scan.py) and the RPC          *)
(* generator (generators.py).                                              *)
(*                                                                         *)
(* A YANG name is a sequence of tokens: words, and the separators "-" and  *)
(* "_" as tokens of their own ("host-name" is <<"host", "-", "name">>).    *)
(* The empty sequence stands for both None and the empty string, which     *)
(* Python treats alike in every test the code makes on a name.             *)
(*                                                                         *)
(* A module is a flat tree: node 0 is the module statement, par[x] is the  *)
(* parent of data node x and children[x] lists the data children of x in   *)
(* statement order (pyang's i_children).                                   *)
(***************************************************************************)
EXTENDS Integers, Sequences, FiniteSets, TLC

VARIABLES module, pc, first_entries, entries, i, j, groupings,
          already_created, rpcs, raised,
          by_prefix, by_name, prefix_request, prefixes_reserved, last, calls,
          heap, original, sibling, copied, before, mutations

transform_vars == <<module, pc, first_entries, entries, i, j, groupings,
                    already_created, rpcs, raised>>

registry_vars == <<by_prefix, by_name, prefix_request, prefixes_reserved,
                   last, calls>>

copy_vars == <<heap, original, sibling, copied, before, mutations>>

vars == <<transform_vars, registry_vars, copy_vars>>

----------------------------------------------------------------------------
(* Bounds of the input family.                                             *)

(* Config and modifier statements in one module. *)
MaxAnnotations == 2

(* Leaves named by one key statement. *)
MaxKeys == 2

(* Calls made on one ImportRegistry. *)
MaxCalls == 3

(* Writes made in place to the containers of one copied entry. *)
MaxMutations == 2

(* The nodes of a module besides the key leaves of its lists. *)
Nodes == 1..3

----------------------------------------------------------------------------
(* definitions.py                                                          *)

READ_OP == <<"get">>

CHANGE_OP == <<"set">>

ITEM_ADD_OP == <<"add">>

ITEM_REMOVE_OP == <<"remove">>

ATOMIC == "atomic"

ATOMIC_ITEM == "atomic-item"

INCLUDE == "include"

INCLUDE_ITEM == "include-item"

Modifiers == {ATOMIC, ATOMIC_ITEM, INCLUDE, INCLUDE_ITEM}

----------------------------------------------------------------------------
(* Sequence helpers.                                                       *)

Last(s) == s[Len(s)]

Range(s) == {s[t] : t \in DOMAIN s}

Reverse(s) == [t \in 1..Len(s) |-> s[Len(s) + 1 - t]]

RECURSIVE SubsetsUpTo(_, _)
SubsetsUpTo(S, n) ==
    IF n = 0 THEN {{}}
    ELSE LET prev == SubsetsUpTo(S, n - 1)
         IN  prev \cup {s \cup {x} : s \in prev, x \in S}

----------------------------------------------------------------------------
(* Statements of the input tree.                                           *)

i_children(m, x) == m.children[x]

(* A statement as it appears in generated content: keyword, argument and   *)
(* the data sub-statements one level down.                                 *)
Stmt(keyword, arg, substmts) ==
    [keyword |-> keyword, arg |-> arg, substmts |-> substmts]

Shallow(m, x) == Stmt(m.kw[x], m.arg[x], <<>>)

Statement(m, x) ==
    LET cs == i_children(m, x)
    IN  Stmt(m.kw[x], m.arg[x], [t \in 1..Len(cs) |-> Shallow(m, cs[t])])

----------------------------------------------------------------------------
(* predicates.py                                                           *)

(* is_atomic were it to look at the keyword alone.                         *)
is_atomic_keyword_only(m, x) == m.kw[x] \in {"leaf", "anyxml"}

is_atomic(m, x) == m.kw[x] \in {"leaf", "anyxml"} \/ ATOMIC \in m.mods[x]

(* is_atomic_item were it to look at the modifier alone.                    *)
is_atomic_item_modifier_only(m, x) == ATOMIC_ITEM \in m.mods[x]

is_atomic_item(m, x) == m.kw[x] = "leaf-list" \/ ATOMIC_ITEM \in m.mods[x]

DATA_STATEMENTS ==
    {"container", "list", "leaf", "leaf-list", "anyxml", "choice", "case"}

is_data(m, x) == m.kw[x] \in DATA_STATEMENTS

(* is_included were it never to find the modifier.                         *)
is_included_never(m, x) == FALSE

is_included(m, x) == INCLUDE \in m.mods[x]

(* is_included_item were it never to find the modifier.                    *)
is_included_item_never(m, x) == FALSE

is_included_item(m, x) == INCLUDE_ITEM \in m.mods[x]

is_list(m, x) == m.kw[x] \in {"list", "leaf-list"}

(* scan.py imports is_leaf_list from predicates.py, which does not define  *)
(* it; it is taken to tell a leaf-list by its keyword, as the description  *)
(* of the list scan has it.                                                *)
is_leaf_list(m, x) == m.kw[x] = "leaf-list"

(* is_read_only were it never to find `config false`.                      *)
is_read_only_never(m, x) == FALSE

is_read_only(m, x) == m.ro[x]

----------------------------------------------------------------------------
(* Names.                                                                  *)

(* inflection.singularize, on the vocabulary of the input family: a plural *)
(* last word loses its plural ending, any other name is returned as is.    *)
SingularOf ==
    [w \in {"xs", "ys", "zs", "ws"} |->
        CASE w = "xs" -> "x" [] w = "ys" -> "y" [] w = "zs" -> "z"
          [] w = "ws" -> "w"]

singularize(name) ==
    IF name # <<>> /\ Last(name) \in DOMAIN SingularOf
    THEN [name EXCEPT ![Len(name)] = SingularOf[Last(name)]]
    ELSE name

(* inflection.dasherize: every underscore becomes a dash.                  *)
dasherize(name) ==
    [t \in 1..Len(name) |-> IF name[t] = "_" THEN "-" ELSE name[t]]

RECURSIVE join(_)
join(names) ==
    IF names = <<>> THEN <<>>
    ELSE IF Len(names) = 1 THEN names[1]
    ELSE names[1] \o <<"_">> \o join(Tail(names))

(* DEFAULT_CONFIG['name_composer']                                         *)
name_composer(names) ==
    dasherize(join(SelectSeq(names, LAMBDA x : x # <<>>)))

compose(names) == name_composer(names)

----------------------------------------------------------------------------
(* DEFAULT_CONFIG of the generator.                                        *)

key_suffix == <<"id">>

data_suffix == <<"data">>

identification_suffix == <<"identification">>

response_suffix == <<"response">>

default_response_name == <<"default", "-", "response">>

choice_name == <<"response">>

success_name == <<"success">>

failure_name == <<"failure">>

success_children_template == <<Stmt("leaf", <<"ok">>, <<>>)>>

key_template == Stmt("leaf", <<"id">>, <<>>)

value_arg == <<"value">>

----------------------------------------------------------------------------
(* scan.py                                                                 *)

READ_ONLY_OPS == <<READ_OP>>

(* DEFAULT_OPS were CHANGE put in front of READ.                           *)
DEFAULT_OPS_change_first == <<CHANGE_OP>> \o READ_ONLY_OPS

DEFAULT_OPS == READ_ONLY_OPS \o <<CHANGE_OP>>

(* DEFAULT_ITEM_OPS were ITEM_ADD to come before READ.                     *)
DEFAULT_ITEM_OPS_add_first ==
    <<ITEM_ADD_OP>> \o DEFAULT_OPS \o <<ITEM_REMOVE_OP>>

DEFAULT_ITEM_OPS == DEFAULT_OPS \o <<ITEM_ADD_OP, ITEM_REMOVE_OP>>

(* The child statements named by the list's key statement; <<>> when the   *)
(* list has no key statement.                                              *)
(* ensure_validated: the exception it raises, "" when it returns.          *)
ensure_validated(m) ==
    IF m.validated THEN "" ELSE "AttributeError"

find_keys(m, x) ==
    [t \in 1..Len(m.key[x]) |->
        LET c == CHOOSE c \in Range(i_children(m, x)) : m.arg[c] = m.key[x][t]
        IN  Shallow(m, c)]

(* find_item_name were it to overlook the `item-name` statement.           *)
find_item_name_singular_only(m, x) == singularize(m.arg[x])

find_item_name(m, x) ==
    IF m.item_name[x] # <<>> THEN m.item_name[x] ELSE singularize(m.arg[x])

(* parent_keys is a dict from item name to key nodes, kept here as a       *)
(* sequence of <<name, keys>> pairs in insertion order.                    *)
DictHas(d, name) == \E t \in DOMAIN d : d[t][1] = name

DictGet(d, name) ==
    IF DictHas(d, name)
    THEN d[CHOOSE t \in DOMAIN d : d[t][1] = name][2]
    ELSE <<>>

DictSet(d, name, value) ==
    IF DictHas(d, name)
    THEN [t \in DOMAIN d |-> IF d[t][1] = name THEN <<name, value>> ELSE d[t]]
    ELSE Append(d, <<name, value>>)

EntryPoint(path, payload, operations, parent_keys, own_keys) ==
    [path |-> path, payload |-> payload, operations |-> operations,
     parent_keys |-> parent_keys, own_keys |-> own_keys]

copy(entry) ==
    EntryPoint(entry.path, entry.payload, entry.operations,
               entry.parent_keys, entry.own_keys)

default_key ==
    IF key_suffix # <<>> THEN [key_template EXCEPT !.arg = key_suffix]
    ELSE key_template

singularize_list(m, x, item_name) ==
    IF is_leaf_list(m, x)
    THEN Stmt("container", item_name, <<Stmt("leaf", value_arg, <<>>)>>)
    ELSE [Statement(m, x) EXCEPT !.keyword = "container", !.arg = item_name]

(* scan_list were it to give the item entry DEFAULT_ITEM_OPS whatever      *)
(* read_only says.                                                         *)
scan_list_always_writable(m, x, read_only) ==
    LET item_name == find_item_name(m, x)
        accessor_path == <<item_name>>
        atomic_item == is_atomic_item(m, x)
        include_item == is_included_item(m, x)
        key_nodes == find_keys(m, x)
        keys == IF key_nodes # <<>> THEN key_nodes ELSE <<default_key>>
        single == singularize_list(m, x, item_name)
        payload ==
            IF key_nodes = <<>>
            THEN [single EXCEPT !.substmts = Append(@, keys[1])]
            ELSE single
        list_entries ==
            IF atomic_item \/ include_item
            THEN <<EntryPoint(accessor_path, payload, DEFAULT_ITEM_OPS,
                              <<>>, keys)>>
            ELSE <<>>
    IN  [prune |-> atomic_item, keys |-> keys, entries |-> list_entries,
         accessor_path |-> accessor_path]

(* scan_list were it never to return _PRUNE.                               *)
scan_list_never_prunes(m, x, read_only) ==
    LET item_name == find_item_name(m, x)
        accessor_path == <<item_name>>
        atomic_item == is_atomic_item(m, x)
        include_item == is_included_item(m, x)
        key_nodes == find_keys(m, x)
        keys == IF key_nodes # <<>> THEN key_nodes ELSE <<default_key>>
        single == singularize_list(m, x, item_name)
        payload ==
            IF key_nodes = <<>>
            THEN [single EXCEPT !.substmts = Append(@, keys[1])]
            ELSE single
        list_entries ==
            IF atomic_item \/ include_item
            THEN <<EntryPoint(accessor_path, payload,
                              IF read_only THEN READ_ONLY_OPS
                              ELSE DEFAULT_ITEM_OPS,
                              <<>>, keys)>>
            ELSE <<>>
    IN  [prune |-> FALSE, keys |-> keys, entries |-> list_entries,
         accessor_path |-> accessor_path]

scan_list(m, x, read_only) ==
    LET item_name == find_item_name(m, x)
        accessor_path == <<item_name>>
        atomic_item == is_atomic_item(m, x)
        include_item == is_included_item(m, x)
        key_nodes == find_keys(m, x)
        keys == IF key_nodes # <<>> THEN key_nodes ELSE <<default_key>>
        single == singularize_list(m, x, item_name)
        payload ==
            IF key_nodes = <<>>
            THEN [single EXCEPT !.substmts = Append(@, keys[1])]
            ELSE single
        list_entries ==
            IF atomic_item \/ include_item
            THEN <<EntryPoint(accessor_path, payload,
                              IF read_only THEN READ_ONLY_OPS
                              ELSE DEFAULT_ITEM_OPS,
                              <<>>, keys)>>
            ELSE <<>>
    IN  [prune |-> atomic_item, keys |-> keys, entries |-> list_entries,
         accessor_path |-> accessor_path]

(* The loop body were it to leave the child entries' operations alone.     *)
adopt_keeps_operations(child_entries, read_only, keys, accessor_path) ==
    LET key_names == {keys[t].arg : t \in DOMAIN keys}
        kept == SelectSeq(child_entries,
                    LAMBDA e : ~(keys # <<>> /\ Last(e.path) \in key_names))
        one(e) ==
            [e EXCEPT
                !.parent_keys = IF keys # <<>>
                                THEN DictSet(@, Last(accessor_path), keys)
                                ELSE @,
                !.path = accessor_path \o @]
    IN  [t \in 1..Len(kept) |-> one(kept[t])]

(* The loop body were it not to skip the entries of the key leaves.        *)
adopt_keeps_keys(child_entries, read_only, keys, accessor_path) ==
    LET one(e) ==
            [e EXCEPT
                !.operations = IF read_only THEN READ_ONLY_OPS ELSE @,
                !.parent_keys = IF keys # <<>>
                                THEN DictSet(@, Last(accessor_path), keys)
                                ELSE @,
                !.path = accessor_path \o @]
    IN  [t \in 1..Len(child_entries) |-> one(child_entries[t])]

(* The body of the loop over the entries of one child (scan.py 319-338).   *)
adopt(child_entries, read_only, keys, accessor_path) ==
    LET key_names == {keys[t].arg : t \in DOMAIN keys}
        kept == SelectSeq(child_entries,
                    LAMBDA e : ~(keys # <<>> /\ Last(e.path) \in key_names))
        one(e) ==
            [e EXCEPT
                !.operations = IF read_only THEN READ_ONLY_OPS ELSE @,
                !.parent_keys = IF keys # <<>>
                                THEN DictSet(@, Last(accessor_path), keys)
                                ELSE @,
                !.path = accessor_path \o @]
    IN  [t \in 1..Len(kept) |-> one(kept[t])]

RECURSIVE scan(_, _)
RECURSIVE scan_children(_, _, _, _, _)
scan_children(m, cs, read_only, keys, accessor_path) ==
    IF cs = <<>> THEN <<>>
    ELSE adopt(scan(m, Head(cs)), read_only, keys, accessor_path)
         \o scan_children(m, Tail(cs), read_only, keys, accessor_path)

scan(m, x) ==
    IF x = 0
    THEN scan_children(m, i_children(m, 0), FALSE, <<>>, <<>>)
    ELSE IF ~is_data(m, x) THEN <<>>
    ELSE
    LET read_only == is_read_only(m, x)
        entry == EntryPoint(<<m.arg[x]>>, Statement(m, x),
                            IF read_only THEN READ_ONLY_OPS ELSE DEFAULT_OPS,
                            <<>>, <<>>)
    IN  IF is_atomic(m, x) THEN <<entry>>
        ELSE
        LET included == IF is_included(m, x) THEN <<copy(entry)>> ELSE <<>>
            sl == IF is_list(m, x) THEN scan_list(m, x, read_only)
                  ELSE [prune |-> FALSE, keys |-> <<>>, entries |-> <<>>,
                        accessor_path |-> <<m.arg[x]>>]
        IN  IF sl.prune THEN included \o sl.entries
            ELSE included \o sl.entries
                 \o scan_children(m, i_children(m, x), read_only, sl.keys,
                                  sl.accessor_path)

----------------------------------------------------------------------------
(* generators.py                                                           *)

(* The loop builds `new` with the composed name and then appends `key`,    *)
(* the node it was given: the list returned holds the keys unchanged.      *)
prefix_keys(keys, prefix) ==
    LET new(key) == [key EXCEPT !.arg = name_composer(<<prefix, key.arg>>)]
        appended(key) == key
    IN  [t \in 1..Len(keys) |-> appended(keys[t])]

(* _create_response_choice: the choice of a success case and a failure     *)
(* case.  transform holds its only call in a comment.                      *)
create_response_choice(success_children) ==
    Stmt("choice", choice_name,
         <<Stmt("case", success_name,
                IF success_children # <<>> THEN success_children
                ELSE <<Stmt("uses", success_name, <<>>)>>),
           Stmt("case", failure_name,
                <<Stmt("uses", failure_name, <<>>)>>)>>)

RECURSIVE extend_keys(_, _)
extend_keys(parent_keys, predecessor_names) ==
    IF parent_keys = <<>> THEN <<>>
    ELSE LET name == Head(parent_keys)[1]
             keys == Head(parent_keys)[2]
         IN  (IF name \in Range(predecessor_names)
              THEN prefix_keys(keys, name) ELSE keys)
             \o extend_keys(Tail(parent_keys), predecessor_names)

RECURSIVE before_target(_, _)
before_target(path, target) ==
    IF path = <<>> \/ Head(path) = target THEN <<>>
    ELSE <<Head(path)>> \o before_target(Tail(path), target)

define_id_grouping(entry) ==
    LET path == entry.path
        parent_keys == entry.parent_keys
        keyed_items ==
            SelectSeq(path, LAMBDA name : DictHas(parent_keys, name))
            \o (IF entry.own_keys # <<>> THEN <<Last(path)>> ELSE <<>>)
    IN  IF keyed_items = <<>> THEN [name |-> <<>>, content |-> <<>>]
        ELSE
        LET target == Last(keyed_items)
            target_keys == IF DictGet(parent_keys, target) # <<>>
                           THEN DictGet(parent_keys, target)
                           ELSE entry.own_keys
            predecessor_names == before_target(path, target)
            predecessor_keys == extend_keys(parent_keys, predecessor_names)
        IN  [name |-> name_composer(predecessor_names
                                    \o <<target, identification_suffix>>),
             content |-> predecessor_keys \o target_keys]

(* The groupings of the output module and the registry of their names,     *)
(* after one call.                                                         *)
create_and_append_grouping(out, name, content) ==
    IF name # <<>> /\ name \notin Range(out.registry)
    THEN [groupings |-> Append(out.groupings,
                               [name |-> name, content |-> content]),
          registry |-> Append(out.registry, name)]
    ELSE out

uses(name) == Stmt("uses", name, <<>>)

id_group(entry) == define_id_grouping(entry)

data_group(entry) == compose(entry.path \o <<data_suffix>>)

parent_id(entry) ==
    IF entry.parent_keys # <<>>
    THEN define_id_grouping([copy(entry) EXCEPT !.own_keys = <<>>])
    ELSE [name |-> <<>>, content |-> <<>>]

(* rpc_name were the operation to come after the path.                     *)
rpc_name_path_first(entry, operation) == compose(entry.path \o <<operation>>)

rpc_name(entry, operation) == compose(<<operation>> \o entry.path)

(* What one pass of the loop over entry.operations yields: the request and *)
(* response groupings' names and contents.                                 *)
request_of(entry, operation) ==
    IF operation \in {READ_OP, ITEM_REMOVE_OP}
    THEN id_group(entry)
    ELSE [name |-> IF parent_id(entry).name # <<>>
                   THEN parent_id(entry).name ELSE data_group(entry),
          content |-> IF parent_id(entry).content # <<>>
                      THEN parent_id(entry).content ELSE <<entry.payload>>]

response_of(entry, operation) ==
    IF operation = CHANGE_OP
    THEN [name |-> default_response_name,
          content |-> success_children_template]
    ELSE IF operation = ITEM_ADD_OP
    THEN [name |-> compose(<<rpc_name(entry, operation), response_suffix>>),
          content |-> IF parent_id(entry).content = <<>>
                      THEN <<uses(id_group(entry).name)>>
                      ELSE entry.own_keys]
    ELSE [name |-> compose(entry.path \o <<response_suffix>>),
          content |-> <<uses(data_group(entry))>>]

(* The RPC were its input written whether or not there is a request name.  *)
rpc_always_input(entry, operation) ==
    LET request_name == request_of(entry, operation).name
        response_name == response_of(entry, operation).name
    IN  [name |-> rpc_name(entry, operation),
         input |-> <<uses(request_name)>>,
         output |-> IF response_name # <<>> THEN <<uses(response_name)>>
                    ELSE <<>>]

rpc(entry, operation) ==
    LET request_name == request_of(entry, operation).name
        response_name == response_of(entry, operation).name
    IN  [name |-> rpc_name(entry, operation),
         input |-> IF request_name # <<>> THEN <<uses(request_name)>>
                   ELSE <<>>,
         output |-> IF response_name # <<>> THEN <<uses(response_name)>>
                    ELSE <<>>]

----------------------------------------------------------------------------
(* EntryPoint objects on a heap.  heap[r] is the value of the container or *)
(* statement with reference r; the fields of an entry hold references, and *)
(* a parent_keys dict holds a reference to each of its key lists.          *)

NoEntry ==
    [path |-> 0, payload |-> 0, operations |-> 0, parent_keys |-> 0,
     own_keys |-> 0]

NoCopies ==
    /\ heap = <<>>
    /\ original = NoEntry
    /\ sibling = NoEntry
    /\ copied = NoEntry
    /\ before = <<>>
    /\ mutations = 0

(* What an entry holds, every reference followed. *)
Deref(h, entry) ==
    EntryPoint(h[entry.path], h[entry.payload], h[entry.operations],
               [t \in DOMAIN h[entry.parent_keys] |->
                   <<h[entry.parent_keys][t][1],
                     h[h[entry.parent_keys][t][2]]>>],
               h[entry.own_keys])

(* EntryPoint.copy: the heap after the call and the entry it returns.      *)
(* self.path is handed over as it is; operations[:], parent_keys.copy()    *)
(* and own_keys[:] are new containers of the same elements; the payload is *)
(* a copy of the statement.                                                *)
copy_on_heap(h, self) ==
    LET n == Len(h)
    IN  [heap |-> h \o <<h[self.payload], h[self.operations],
                          h[self.parent_keys], h[self.own_keys]>>,
         entry |-> [path |-> self.path, payload |-> n + 1,
                    operations |-> n + 2, parent_keys |-> n + 3,
                    own_keys |-> n + 4]]

(* copied = original.copy() *)
Copy ==
    /\ original # NoEntry
    /\ copied = NoEntry
    /\ heap' = copy_on_heap(heap, original).heap
    /\ copied' = copy_on_heap(heap, original).entry
    /\ UNCHANGED <<original, sibling, before, mutations>>
    /\ UNCHANGED <<transform_vars, registry_vars>>

(* One write in place to a container the copy holds. *)
Written(r, value) ==
    /\ mutations < MaxMutations
    /\ heap' = [heap EXCEPT ![r] = value]
    /\ mutations' = mutations + 1
    /\ UNCHANGED <<original, sibling, copied, before>>
    /\ UNCHANGED <<transform_vars, registry_vars>>

(* copied.path.append(name) *)
MutatePath ==
    /\ copied # NoEntry
    /\ Written(copied.path, Append(heap[copied.path], <<"z">>))

(* copied.operations.append(operation) *)
MutateOperations ==
    /\ copied # NoEntry
    /\ Written(copied.operations,
               Append(heap[copied.operations], ITEM_ADD_OP))

(* copied.parent_keys[name] = copied.own_keys *)
MutateParentKeys ==
    /\ copied # NoEntry
    /\ \E name \in {<<"x">>, <<"y">>} :
           Written(copied.parent_keys,
                   DictSet(heap[copied.parent_keys], name, copied.own_keys))

(* copied.parent_keys[name].append(key) *)
MutateKeyList ==
    /\ copied # NoEntry
    /\ \E t \in DOMAIN heap[copied.parent_keys] :
           LET r == heap[copied.parent_keys][t][2]
           IN  Written(r, Append(heap[r], default_key))

(* copied.own_keys.append(key) *)
MutateOwnKeys ==
    /\ copied # NoEntry
    /\ Written(copied.own_keys, Append(heap[copied.own_keys], default_key))

(* copied.payload.arg = name *)
MutatePayload ==
    /\ copied # NoEntry
    /\ Written(copied.payload, [heap[copied.payload] EXCEPT !.arg = <<"z">>])

NextCopy ==
    \/ Copy
    \/ MutatePath
    \/ MutateOperations
    \/ MutateParentKeys
    \/ MutateKeyList
    \/ MutateOwnKeys
    \/ MutatePayload

----------------------------------------------------------------------------
(* registry.py: ImportRegistry.  by_prefix, by_name and prefix_request are *)
(* dicts, kept like parent_keys as sequences of <<key, value>> pairs; a    *)
(* prefix is a sequence of characters, a revision "" is None or empty.     *)

ModuleNames == {"a", "b", "P"}

Revisions == {"", "r1", "r2"}

Suggestions == {<<>>, <<"p">>, <<"p", "2">>}

(* prefixify, on module names: a YANG identifier stays as it is but for    *)
(* its capitals, which parameterize lowers.                                *)
prefixify(name) ==
    CASE name = "a" -> <<"a">> [] name = "b" -> <<"b">> [] name = "P" -> <<"p">>

Digits == <<"1", "2", "3", "4", "5", "6", "7", "8", "9">>

RECURSIVE str(_)
str(n) ==
    IF n = 0 THEN <<"0">>
    ELSE IF n < 10 THEN <<Digits[n]>>
    ELSE str(n \div 10) \o (IF n % 10 = 0 THEN <<"0">> ELSE <<Digits[n % 10]>>)

Registry ==
    [by_prefix |-> by_prefix, by_name |-> by_name,
     prefix_request |-> prefix_request,
     prefixes_reserved |-> prefixes_reserved]

(* add were it to register a module again on every call.                   *)
add_registers_again(self, prefix, name, revision) ==
    LET some == IF DictHas(self.by_name, name)
                THEN DictGet(self.by_name, name) ELSE <<<<>>, "">>
        some_revision == some[2]
    IN  IF some_revision # "" /\ some_revision # revision
        THEN [self |-> self, returned |-> <<>>, raised |-> "YangImportError"]
        ELSE
        LET wanted == IF prefix = <<>> THEN prefixify(name) ELSE prefix
            occurencies ==
                (IF DictHas(self.prefix_request, wanted)
                 THEN DictGet(self.prefix_request, wanted) ELSE 0) + 1
            counted == IF occurencies > 1
                       THEN DictSet(self.prefix_request, wanted, occurencies)
                       ELSE self.prefix_request
            fresh == IF occurencies > 1 THEN wanted \o str(occurencies)
                     ELSE wanted
        IN  [self |-> [by_prefix |-> DictSet(self.by_prefix, fresh,
                                             <<name, revision>>),
                       by_name |-> DictSet(self.by_name, name,
                                           <<fresh, revision>>),
                       prefix_request |-> DictSet(counted, fresh, 1),
                       prefixes_reserved |-> self.prefixes_reserved],
             returned |-> fresh, raised |-> ""]

(* ImportRegistry.add: the registry after the call, what it returns and    *)
(* the exception it raises ("" when it returns).                           *)
add(self, prefix, name, revision) ==
    LET some == IF DictHas(self.by_name, name)
                THEN DictGet(self.by_name, name) ELSE <<<<>>, "">>
        some_prefix == some[1]
        some_revision == some[2]
    IN  IF some_revision # "" /\ some_revision # revision
        THEN [self |-> self, returned |-> <<>>, raised |-> "YangImportError"]
        ELSE IF some_prefix # <<>>
        THEN [self |-> self, returned |-> some_prefix, raised |-> ""]
        ELSE
        LET wanted == IF prefix = <<>> THEN prefixify(name) ELSE prefix
            occurencies ==
                (IF DictHas(self.prefix_request, wanted)
                 THEN DictGet(self.prefix_request, wanted) ELSE 0) + 1
            counted == IF occurencies > 1
                       THEN DictSet(self.prefix_request, wanted, occurencies)
                       ELSE self.prefix_request
            fresh == IF occurencies > 1 THEN wanted \o str(occurencies)
                     ELSE wanted
        IN  [self |-> [by_prefix |-> DictSet(self.by_prefix, fresh,
                                             <<name, revision>>),
                       by_name |-> DictSet(self.by_name, name,
                                           <<fresh, revision>>),
                       prefix_request |-> DictSet(counted, fresh, 1),
                       prefixes_reserved |-> self.prefixes_reserved],
             returned |-> fresh, raised |-> ""]

(* ImportRegistry.reserve_prefix, given its prefixes as a sequence.        *)
RECURSIVE reserve_prefix(_, _)
reserve_prefix(self, prefixes) ==
    IF prefixes = <<>> THEN self
    ELSE reserve_prefix(
             [self EXCEPT
                 !.prefixes_reserved = Append(@, Head(prefixes)),
                 !.prefix_request = DictSet(@, Head(prefixes), 1)],
             Tail(prefixes))

NoCall ==
    [call |-> "", prefix |-> <<>>, name |-> "", revision |-> "",
     prefixes |-> <<>>, returned |-> <<>>, raised |-> "",
     before |-> [by_prefix |-> <<>>, by_name |-> <<>>,
                 prefix_request |-> <<>>, prefixes_reserved |-> <<>>]]

(* ImportRegistry.__init__ *)
NewRegistry ==
    /\ by_prefix = <<>>
    /\ by_name = <<>>
    /\ prefix_request = <<>>
    /\ prefixes_reserved = <<>>
    /\ last = NoCall
    /\ calls = <<>>

Becomes(self) ==
    /\ by_prefix' = self.by_prefix
    /\ by_name' = self.by_name
    /\ prefix_request' = self.prefix_request
    /\ prefixes_reserved' = self.prefixes_reserved

(* One call of add; `calls` keeps what every call was given and returned.  *)
Add ==
    /\ Len(calls) < MaxCalls
    /\ \E prefix \in Suggestions, name \in ModuleNames,
          revision \in Revisions :
           LET out == add(Registry, prefix, name, revision)
               this == [NoCall EXCEPT
                           !.call = "add", !.prefix = prefix, !.name = name,
                           !.revision = revision,
                           !.returned = out.returned, !.raised = out.raised,
                           !.before = Registry]
           IN  /\ Becomes(out.self)
               /\ last' = this
               /\ calls' = Append(calls, [this EXCEPT !.before = NoCall.before])
    /\ UNCHANGED <<transform_vars, copy_vars>>

(* One call of reserve_prefix, with one prefix or two.                     *)
ReservePrefix ==
    /\ Len(calls) < MaxCalls
    /\ \E prefixes \in {<<p>> : p \in Suggestions \ {<<>>}}
                        \cup {<<<<"p">>, <<"p", "2">>>>} :
           LET this == [NoCall EXCEPT
                           !.call = "reserve_prefix", !.prefixes = prefixes,
                           !.before = Registry]
           IN  /\ Becomes(reserve_prefix(Registry, prefixes))
               /\ last' = this
               /\ calls' = Append(calls, [this EXCEPT !.before = NoCall.before])
    /\ UNCHANGED <<transform_vars, copy_vars>>

InitRegistry ==
    /\ NewRegistry
    /\ NoCopies
    /\ module = <<>>
    /\ pc = "registry"
    /\ first_entries = <<>>
    /\ entries = <<>>
    /\ i = 0
    /\ j = 0
    /\ groupings = <<>>
    /\ already_created = <<>>
    /\ rpcs = <<>>
    /\ raised = ""

NextRegistry == Add \/ ReservePrefix

SpecRegistry == InitRegistry /\ [][NextRegistry]_vars

----------------------------------------------------------------------------
(* The input family: every tree over Nodes in document order, a leaf or a  *)
(* leaf-list where a node has no children and a container or a list where  *)
(* it has; a list may declare up to MaxKeys key leaves, its first          *)
(* children, which stand in the list in the opposite order to the one its  *)
(* key statement names them in.  A node is named by its kind, its parent's kind and its       *)
(* position among its siblings, so that siblings differ and the names of   *)
(* different levels meet: a list in a list has its parent's name, and the  *)
(* first leaf of a container has the name of a key leaf.                   *)

RECURSIVE AncestorsOrSelf(_, _)
AncestorsOrSelf(par, x) ==
    IF x = 0 THEN {} ELSE {x} \cup AncestorsOrSelf(par, par[x])

Shapes ==
    {par \in [Nodes -> 0..(Cardinality(Nodes) - 1)] :
        \A x \in Nodes :
            /\ par[x] < x
            /\ x > 1 => par[x] \in {0} \cup AncestorsOrSelf(par, x - 1)}

HasChildren(par, x) == \E c \in Nodes : par[c] = x

Keywords(par) ==
    {kw \in [Nodes -> {"leaf", "leaf-list", "container", "list"}] :
        \A x \in Nodes :
            kw[x] \in (IF HasChildren(par, x) THEN {"container", "list"}
                       ELSE {"leaf", "leaf-list"})}

Rank(par, x) == Cardinality({c \in Nodes : par[c] = par[x] /\ c <= x})

KeyNames == <<"k", "l", "j">>

LeafNames == <<"n", "x", "m">>

InnerLeafNames == <<"k", "n", "m">>

ListNames == <<"xs", "ys", "zs">>

ContainerNames == <<"c", "d", "e">>

NameOf(kw, parent_kw, rank) ==
    CASE kw = "leaf" /\ parent_kw = "container" -> <<InnerLeafNames[rank]>>
      [] kw = "leaf" /\ parent_kw # "container" -> <<LeafNames[rank]>>
      [] kw \in {"list", "leaf-list"} -> <<ListNames[rank]>>
      [] OTHER -> <<ContainerNames[rank]>>

KeyCounts(kw) ==
    {n \in [Nodes -> 0..MaxKeys] :
        \A x \in Nodes : kw[x] # "list" => n[x] = 0}

Annotations(kw) ==
    SubsetsUpTo((Nodes \X {"config"})
                \cup ({x \in Nodes : kw[x] # "leaf"} \X Modifiers),
                MaxAnnotations)

RECURSIVE Ordered(_)
Ordered(S) ==
    IF S = {} THEN <<>>
    ELSE LET lo == CHOOSE c \in S : \A d \in S : c <= d
         IN  <<lo>> \o Ordered(S \ {lo})

KeyLeaf(x, t) == 10 * x + t

Module(par, kw, annotations, keycount) ==
    LET key_leaves(x) == [t \in 1..keycount[x] |-> KeyLeaf(x, t)]
        all_key_leaves ==
            {KeyLeaf(x, t) : x \in Nodes, t \in 1..MaxKeys}
            \cap UNION {Range(key_leaves(x)) : x \in Nodes}
        nodes == Nodes \cup all_key_leaves
        parent_kw(x) == IF par[x] = 0 THEN "module" ELSE kw[par[x]]
    IN  [par |-> [x \in nodes |-> IF x \in Nodes THEN par[x] ELSE x \div 10],
         children |->
            [x \in {0} \cup nodes |->
                IF x \in Nodes
                THEN Reverse(key_leaves(x))
                     \o Ordered({c \in Nodes : par[c] = x})
                ELSE IF x = 0 THEN Ordered({c \in Nodes : par[c] = 0})
                ELSE <<>>],
         kw |-> [x \in nodes |-> IF x \in Nodes THEN kw[x] ELSE "leaf"],
         arg |-> [x \in nodes |->
                    IF x \in Nodes
                    THEN NameOf(kw[x], parent_kw(x), Rank(par, x))
                    ELSE <<KeyNames[x % 10]>>],
         ro |-> [x \in nodes |-> <<x, "config">> \in annotations],
         mods |-> [x \in nodes |->
                    {md \in Modifiers : <<x, md>> \in annotations}],
         key |-> [x \in nodes |->
                    IF x \in Nodes
                    THEN [t \in 1..keycount[x] |-> <<KeyNames[t]>>]
                    ELSE <<>>],
         item_name |-> [x \in nodes |-> <<>>],
         validated |-> TRUE]

----------------------------------------------------------------------------
(* Two entries as scan leaves them, on the heap.  A child entry of a list  *)
(* and its sibling hold the one list `keys` in their parent_keys (scan.py  *)
(* 334); an item entry holds it as own_keys (scan.py 242).                 *)
InitCopy ==
    /\ \E keycount \in 1..MaxKeys :
       \E operations \in {READ_ONLY_OPS, DEFAULT_OPS} :
       \E item \in BOOLEAN :
           LET keys == [t \in 1..keycount |->
                           Stmt("leaf", <<KeyNames[t]>>, <<>>)]
               child(name) == Stmt("leaf", <<name>>, <<>>)
           IN  /\ heap = <<keys,
                           IF item THEN <<<<"x">>>> ELSE <<<<"x">>, <<"n">>>>,
                           IF item THEN Stmt("container", <<"x">>, keys)
                           ELSE child("n"),
                           IF item /\ Len(operations) > 1
                           THEN DEFAULT_ITEM_OPS ELSE operations,
                           IF item THEN <<>> ELSE <<<<<<"x">>, 1>>>>,
                           <<>>,
                           <<<<"x">>, <<"m">>>>, child("m"), operations,
                           <<<<<<"x">>, 1>>>>, <<>> >>
               /\ original = [path |-> 2, payload |-> 3, operations |-> 4,
                              parent_keys |-> 5,
                              own_keys |-> IF item THEN 1 ELSE 6]
    /\ sibling = [path |-> 7, payload |-> 8, operations |-> 9,
                  parent_keys |-> 10, own_keys |-> 11]
    /\ copied = NoEntry
    /\ before = <<Deref(heap, original), Deref(heap, sibling)>>
    /\ mutations = 0
    /\ NewRegistry
    /\ module = <<>>
    /\ pc = "copy"
    /\ first_entries = <<>>
    /\ entries = <<>>
    /\ i = 0
    /\ j = 0
    /\ groupings = <<>>
    /\ already_created = <<>>
    /\ rpcs = <<>>
    /\ raised = ""

SpecCopy == InitCopy /\ [][NextCopy]_vars

----------------------------------------------------------------------------
(* transform: one step per (entry, operation) of the loops at 505-592.     *)

Init ==
    /\ \E par \in Shapes :
       \E kw \in Keywords(par) :
       \E annotations \in Annotations(kw) :
       \E keycount \in KeyCounts(kw) :
       \E validated \in BOOLEAN :
            module = [Module(par, kw, annotations, keycount)
                          EXCEPT !.validated = validated]
    /\ pc = "scan"
    /\ first_entries = <<>>
    /\ entries = <<>>
    /\ i = 0
    /\ j = 0
    /\ groupings = <<>>
    /\ already_created = <<>>
    /\ rpcs = <<>>
    /\ raised = ""
    /\ NewRegistry
    /\ NoCopies

(* The tree after a scan of it.  The scanner writes to the entries it      *)
(* makes, to the copy singularize_list takes of a list and to the          *)
(* containers and keys it builds, never to a statement of the tree.        *)
after_scan_in_place(m) ==
    LET singularized ==
            {x \in DOMAIN m.kw :
                /\ m.kw[x] = "list"
                /\ ~is_atomic(m, x)
                /\ is_atomic_item(m, x) \/ is_included_item(m, x)}
    IN  [m EXCEPT
            !.kw = [x \in DOMAIN m.kw |->
                       IF x \in singularized THEN "container" ELSE m.kw[x]],
            !.arg = [x \in DOMAIN m.arg |->
                        IF x \in singularized THEN find_item_name(m, x)
                        ELSE m.arg[x]]]

after_scan(m) == m

(* entries = scanner.scan(module): the result is only tested for being     *)
(* empty, which a chain object never is.                                   *)
Scan ==
    /\ pc = "scan"
    /\ ensure_validated(module) = ""
    /\ first_entries' = scan(module, 0)
    /\ module' = after_scan(module)
    /\ pc' = "rescan"
    /\ UNCHANGED <<entries, i, j, groupings, already_created, rpcs, raised>>
    /\ UNCHANGED <<registry_vars, copy_vars>>

(* scanner.scan(module) on a root that ensure_validated rejects: the       *)
(* exception leaves transform before any child is scanned.                 *)
ScanRaises ==
    /\ pc = "scan"
    /\ ensure_validated(module) # ""
    /\ raised' = ensure_validated(module)
    /\ pc' = "raised"
    /\ UNCHANGED <<module, first_entries, entries, i, j, groupings,
                   already_created, rpcs>>
    /\ UNCHANGED <<registry_vars, copy_vars>>

(* for entry in scanner.scan(module): the scan the loop runs over.         *)
Rescan ==
    /\ pc = "rescan"
    /\ entries' = scan(module, 0)
    /\ module' = after_scan(module)
    /\ pc' = "loop"
    /\ i' = 1
    /\ j' = 1
    /\ UNCHANGED <<first_entries, groupings, already_created, rpcs, raised>>
    /\ UNCHANGED <<registry_vars, copy_vars>>

Advance ==
    IF j < Len(entries[i].operations)
    THEN j' = j + 1 /\ i' = i
    ELSE j' = 1 /\ i' = i + 1

Store(out, entry, operation) ==
    /\ groupings' = out.groupings
    /\ already_created' = out.registry
    /\ rpcs' = Append(rpcs, rpc(entry, operation))
    /\ Advance
    /\ UNCHANGED <<module, pc, first_entries, entries, raised>>
    /\ UNCHANGED <<registry_vars, copy_vars>>

(* READ and ITEM_REMOVE: the data grouping, then request and response.     *)
EmitKeyed ==
    /\ pc = "loop"
    /\ i <= Len(entries)
    /\ entries[i].operations[j] \in {READ_OP, ITEM_REMOVE_OP}
    /\ LET entry == entries[i]
           operation == entry.operations[j]
           request == request_of(entry, operation)
           response == response_of(entry, operation)
           out0 == [groupings |-> groupings, registry |-> already_created]
           out1 == create_and_append_grouping(out0, data_group(entry),
                                              <<entry.payload>>)
           out2 == create_and_append_grouping(out1, request.name,
                                              request.content)
           out3 == create_and_append_grouping(out2, response.name,
                                              response.content)
       IN  Store(out3, entry, operation)

(* CHANGE and ITEM_ADD: request and response.                              *)
EmitData ==
    /\ pc = "loop"
    /\ i <= Len(entries)
    /\ entries[i].operations[j] \notin {READ_OP, ITEM_REMOVE_OP}
    /\ LET entry == entries[i]
           operation == entry.operations[j]
           request == request_of(entry, operation)
           response == response_of(entry, operation)
           out0 == [groupings |-> groupings, registry |-> already_created]
           out2 == create_and_append_grouping(out0, request.name,
                                              request.content)
           out3 == create_and_append_grouping(out2, response.name,
                                              response.content)
       IN  Store(out3, entry, operation)

Finish ==
    /\ pc = "loop"
    /\ i > Len(entries)
    /\ pc' = "done"
    /\ UNCHANGED <<module, first_entries, entries, i, j, groupings,
                   already_created, rpcs, raised>>
    /\ UNCHANGED <<registry_vars, copy_vars>>

Next == Scan \/ ScanRaises \/ Rescan \/ EmitKeyed \/ EmitData \/ Finish

Spec == Init /\ [][Next]_vars

----------------------------------------------------------------------------
(* What the claims speak of: the node an entry stands for, and the pair    *)
(* (entry, operation) whose RPC was emitted last.                          *)

RECURSIVE Ancestors(_, _)
Ancestors(m, x) ==
    IF m.par[x] = 0 THEN <<>>
    ELSE Append(Ancestors(m, m.par[x]), m.par[x])

AncestorsAndSelf(m, x) == Append(Ancestors(m, x), x)

DataNodes(m) == DOMAIN m.kw

(* The path segment a node gives to the entries below it. *)
Segment(m, y) == IF is_list(m, y) THEN find_item_name(m, y) ELSE m.arg[y]

PrefixOf(m, x) ==
    LET anc == Ancestors(m, x) IN [t \in 1..Len(anc) |-> Segment(m, anc[t])]

(* e is the entry of node x as a whole. *)
IsNodeEntry(m, e, x) ==
    /\ e.own_keys = <<>>
    /\ e.path = PrefixOf(m, x) \o <<m.arg[x]>>
    /\ e.payload = Statement(m, x)

(* e is the entry of one item of the list or leaf-list x. *)
IsItemEntry(m, e, x) ==
    /\ is_list(m, x)
    /\ e.own_keys # <<>>
    /\ e.path = PrefixOf(m, x) \o <<find_item_name(m, x)>>
    /\ e.payload.keyword = "container"
    /\ e.payload.arg = find_item_name(m, x)

IsEntryOf(m, e, x) == IsNodeEntry(m, e, x) \/ IsItemEntry(m, e, x)

(* x or one of its ancestors has `config false`. *)
ReadOnlyChain(m, x) ==
    \E t \in DOMAIN AncestorsAndSelf(m, x) : m.ro[AncestorsAndSelf(m, x)[t]]

(* The scanner descends to x: no ancestor is atomic or an atomic-item list. *)
Descended(m, x) ==
    \A t \in DOMAIN Ancestors(m, x) :
        LET a == Ancestors(m, x)[t]
        IN  ~is_atomic(m, a) /\ ~(is_list(m, a) /\ is_atomic_item(m, a))

Scanned == pc \in {"loop", "done"}

(* The entry and the operation of the RPC at the end of rpcs. *)
LastEntry ==
    IF j > 1 THEN entries[i] ELSE entries[i - 1]

LastOperation ==
    IF j > 1 THEN entries[i].operations[j - 1]
    ELSE Last(entries[i - 1].operations)

LastRpc == Last(rpcs)

OperationsOf(e) == Range(e.operations)

----------------------------------------------------------------------------
(* C1: every entry point the scan returns has a non-empty operations list  *)
(* whose first element is READ ('get').                                    *)
C1_ReadAlwaysFirst ==
    \A t \in DOMAIN entries :
        /\ entries[t].operations # <<>>
        /\ entries[t].operations[1] = READ_OP

(* A scan that returned a read-only entry and a list-item entry with all   *)
(* four operations.                                                        *)
C1_Witness ==
    /\ Scanned
    /\ \E t \in DOMAIN entries : entries[t].operations = READ_ONLY_OPS
    /\ \E t \in DOMAIN entries : Len(entries[t].operations) = 4

(* C2: operations is [READ], [READ, CHANGE] or [READ, CHANGE, ITEM_ADD,    *)
(* ITEM_REMOVE]; ITEM_ADD and ITEM_REMOVE appear only on the entry of a    *)
(* list item (own_keys non-empty, path ending in the item name) with no    *)
(* `config false` on it or above it; every entry with own_keys is the      *)
(* entry of a list item.                                                   *)
C2_OperationShapes ==
    \A t \in DOMAIN entries :
        LET e == entries[t]
        IN  /\ e.operations \in {READ_ONLY_OPS, DEFAULT_OPS, DEFAULT_ITEM_OPS}
            /\ (ITEM_ADD_OP \in OperationsOf(e)
                    \/ ITEM_REMOVE_OP \in OperationsOf(e))
                => \E x \in DataNodes(module) :
                       /\ IsItemEntry(module, e, x)
                       /\ ~ReadOnlyChain(module, x)
            /\ e.own_keys # <<>>
                => \E x \in DataNodes(module) : IsItemEntry(module, e, x)

(* A scan that returned an item entry with all four operations, a          *)
(* read-only item entry and a plain [READ, CHANGE] entry.                  *)
C2_Witness ==
    /\ Scanned
    /\ \E t \in DOMAIN entries : entries[t].operations = DEFAULT_ITEM_OPS
    /\ \E t \in DOMAIN entries :
           entries[t].own_keys # <<>> /\ entries[t].operations = READ_ONLY_OPS
    /\ \E t \in DOMAIN entries :
           entries[t].own_keys = <<>> /\ entries[t].operations = DEFAULT_OPS

(* C3: read-only is inherited.  Every entry stands for a node; when that   *)
(* node or an ancestor has `config false` its operations are exactly       *)
(* [READ] and the only RPC emitted for it is its get-; otherwise its       *)
(* operations contain CHANGE.                                              *)
C3_ReadOnlyInherited ==
    /\ \A t \in DOMAIN entries :
           /\ \E x \in DataNodes(module) : IsEntryOf(module, entries[t], x)
           /\ \A x \in DataNodes(module) :
                  IsEntryOf(module, entries[t], x)
                  => IF ReadOnlyChain(module, x)
                     THEN entries[t].operations = READ_ONLY_OPS
                     ELSE CHANGE_OP \in OperationsOf(entries[t])
    /\ rpcs # <<>>
       => \A x \in DataNodes(module) :
              IsEntryOf(module, LastEntry, x) /\ ReadOnlyChain(module, x)
              => /\ LastOperation = READ_OP
                 /\ LastRpc.name = compose(<<READ_OP>> \o LastEntry.path)

(* The RPC of an entry whose own node is writable and whose ancestor has   *)
(* `config false` has just been emitted.                                   *)
C3_Witness ==
    /\ rpcs # <<>>
    /\ \E x \in DataNodes(module) :
           /\ IsEntryOf(module, LastEntry, x)
           /\ ~module.ro[x]
           /\ ReadOnlyChain(module, x)

(* C4: a module whose data children are plain leaves yields one entry per  *)
(* leaf, in child order, with path [leaf name], no keys, and operations    *)
(* [READ, CHANGE], or [READ] for a `config false` leaf; such a leaf gets   *)
(* no set- RPC and its get- RPC has no input (no request grouping).        *)
PlainLeaves(m) ==
    \A x \in DataNodes(m) : m.par[x] = 0 /\ m.kw[x] = "leaf" /\ m.mods[x] = {}

C4_LeafMinimality ==
    (Scanned /\ PlainLeaves(module)) =>
        LET leaves == i_children(module, 0)
        IN  /\ Len(entries) = Len(leaves)
            /\ \A t \in DOMAIN entries :
                   /\ entries[t].path = <<module.arg[leaves[t]]>>
                   /\ entries[t].own_keys = <<>>
                   /\ entries[t].parent_keys = <<>>
                   /\ entries[t].operations =
                          IF module.ro[leaves[t]] THEN <<READ_OP>>
                          ELSE <<READ_OP, CHANGE_OP>>
            /\ \A t \in DOMAIN leaves : \A r \in DOMAIN rpcs :
                   module.ro[leaves[t]] =>
                       /\ rpcs[r].name #
                              compose(<<CHANGE_OP, module.arg[leaves[t]]>>)
                       /\ rpcs[r].name =
                              compose(<<READ_OP, module.arg[leaves[t]]>>)
                          => rpcs[r].input = <<>>
                       /\ rpcs[r].input #
                              <<uses(data_group(entries[t]))>>
            /\ pc = "done" =>
                   \A t \in DOMAIN leaves :
                       \E r \in DOMAIN rpcs :
                           rpcs[r].name =
                               compose(<<READ_OP, module.arg[leaves[t]]>>)

(* A finished run on a module of plain leaves, one `config false` and one  *)
(* writable.                                                               *)
C4_Witness ==
    /\ pc = "done"
    /\ PlainLeaves(module)
    /\ \E x, y \in DataNodes(module) : module.ro[x] /\ ~module.ro[y]

(* C5: a leaf-list with no modifier that the scanner reaches yields one    *)
(* item entry and no entry for the leaf-list as a whole; the RPCs emitted  *)
(* for it are get-, set-, add- and remove-<singular> (get- alone under     *)
(* `config false`), and no RPC carries the leaf-list's plural name.        *)
PlainLeafLists(m) ==
    {x \in DataNodes(m) :
        m.kw[x] = "leaf-list" /\ m.mods[x] = {} /\ Descended(m, x)}

C5_LeafListAtomicItem ==
    Scanned =>
    \A x \in PlainLeafLists(module) :
        LET singular == PrefixOf(module, x) \o <<singularize(module.arg[x])>>
            plural == PrefixOf(module, x) \o <<module.arg[x]>>
            items == {t \in DOMAIN entries : IsItemEntry(module, entries[t], x)}
            expected == IF ReadOnlyChain(module, x) THEN <<READ_OP>>
                        ELSE <<READ_OP, CHANGE_OP, ITEM_ADD_OP, ITEM_REMOVE_OP>>
        IN  /\ Cardinality(items) = 1
            /\ \A t \in items :
                   entries[t].path = singular /\ entries[t].operations = expected
            /\ \A t \in DOMAIN entries : ~IsNodeEntry(module, entries[t], x)
            /\ rpcs # <<>> /\ IsItemEntry(module, LastEntry, x)
               => LastRpc.name = compose(<<LastOperation>> \o singular)
            /\ \A r \in DOMAIN rpcs :
                   \A op \in {READ_OP, CHANGE_OP, ITEM_ADD_OP, ITEM_REMOVE_OP} :
                       rpcs[r].name # compose(<<op>> \o plural)
            /\ pc = "done" =>
                   \A o \in DOMAIN expected :
                       \E r \in DOMAIN rpcs :
                           rpcs[r].name = compose(<<expected[o]>> \o singular)

(* A finished run on a module with a writable and a `config false`         *)
(* leaf-list, both without modifier.                                       *)
C5_Witness ==
    /\ pc = "done"
    /\ \E x, y \in PlainLeafLists(module) :
           ReadOnlyChain(module, x) /\ ~ReadOnlyChain(module, y)

----------------------------------------------------------------------------
(* The statements an RPC's input or output holds once every `uses` is      *)
(* followed into the grouping of that name.                                *)
GroupingNamed(name) ==
    {groupings[t] : t \in {u \in DOMAIN groupings : groupings[u].name = name}}

RECURSIVE Walk(_)
Walk(stmts) ==
    UNION {{stmts[t]} \cup Walk(stmts[t].substmts)
           \cup (IF stmts[t].keyword = "uses"
                 THEN UNION {Walk(g.content) : g \in GroupingNamed(stmts[t].arg)}
                 ELSE {}) : t \in DOMAIN stmts}

(* C6: every RPC's output contains a choice named 'response' with exactly  *)
(* two cases, a success case and a failure case that uses the 'failure'    *)
(* grouping.                                                               *)
C6_ResponseChoice ==
    \A r \in DOMAIN rpcs :
        \E c \in Walk(rpcs[r].output) :
            /\ c.keyword = "choice"
            /\ c.arg = choice_name
            /\ Len(c.substmts) = 2
            /\ \E s, f \in DOMAIN c.substmts :
                   /\ c.substmts[s].keyword = "case"
                   /\ c.substmts[s].arg = success_name
                   /\ c.substmts[f] = create_response_choice(<<>>).substmts[2]
            /\ \E g \in Range(groupings) : g.name = failure_name

(* The lists above x, outermost first, and the key leaves of an item of    *)
(* the list y.                                                             *)
EnclosingLists(m, x) ==
    {y \in Range(Ancestors(m, x)) : is_list(m, y)}

KeysOf(m, y) ==
    IF find_keys(m, y) # <<>> THEN find_keys(m, y) ELSE <<default_key>>

(* C7: for an entry below one or more list items, the RPCs of its READ and *)
(* CHANGE operations have an input that uses a grouping of the derived     *)
(* module holding the key leaves of every enclosing list item.             *)
C7_InputCarriesEnclosingKeys ==
    (rpcs # <<>> /\ LastOperation \in {READ_OP, CHANGE_OP}) =>
        \A x \in DataNodes(module) :
            (IsEntryOf(module, LastEntry, x) /\ EnclosingLists(module, x) # {})
            => \E g \in Range(groupings) :
                   /\ LastRpc.input = <<uses(g.name)>>
                   /\ \A y \in EnclosingLists(module, x) :
                          Range(KeysOf(module, y)) \subseteq Range(g.content)

(* The keyed lists at the top of the module that carry no modifier, and    *)
(* the leaves among the children of such a list.                           *)
PlainKeyedLists(m) ==
    {x \in DataNodes(m) :
        m.kw[x] = "list" /\ m.par[x] = 0 /\ m.mods[x] = {} /\ m.key[x] # <<>>}

ChildLeaves(m, x) ==
    {c \in Range(i_children(m, x)) : m.kw[c] = "leaf"}

(* C8, as stated: a keyed list with no modifier yields an entry for each   *)
(* child leaf, the key leaves included, each with path [list name, item    *)
(* name, leaf name] and parent_keys[item name] equal to the list's key     *)
(* leaves in declared order.                                               *)
C8_EntryForEveryChildLeaf ==
    Scanned =>
    \A x \in PlainKeyedLists(module) : \A c \in ChildLeaves(module, x) :
        \E t \in DOMAIN entries :
            /\ entries[t].path =
                   <<module.arg[x], find_item_name(module, x), module.arg[c]>>
            /\ DictGet(entries[t].parent_keys, find_item_name(module, x))
                   = find_keys(module, x)

(* C8, amended: a keyed list with no modifier yields exactly one entry for *)
(* each child leaf that is not a key leaf and none for a key leaf; the     *)
(* entry's path is [item name, leaf name], without the list name, and its  *)
(* parent_keys holds, under the item name alone, the list's key leaves in  *)
(* the order of the key statement.                                         *)
C8_EntryForEveryNonKeyChildLeaf ==
    Scanned =>
    \A x \in PlainKeyedLists(module) : \A c \in ChildLeaves(module, x) :
        LET item == find_item_name(module, x)
            mine == {t \in DOMAIN entries : IsNodeEntry(module, entries[t], c)}
        IN  /\ \A t \in DOMAIN entries :
                   entries[t].path # <<module.arg[x], item, module.arg[c]>>
            /\ IF module.arg[c] \in Range(module.key[x])
               THEN mine = {}
               ELSE /\ Cardinality(mine) = 1
                    /\ \A t \in mine :
                           /\ entries[t].path = <<item, module.arg[c]>>
                           /\ entries[t].own_keys = <<>>
                           /\ entries[t].parent_keys
                                  = <<<<item, find_keys(module, x)>>>>
                           /\ \A k \in DOMAIN module.key[x] :
                                  entries[t].parent_keys[1][2][k].arg
                                      = module.key[x][k]

(* A scan of a module with a list of two keys and a further leaf.          *)
C8_Witness ==
    /\ Scanned
    /\ \E x \in PlainKeyedLists(module) :
           /\ Len(module.key[x]) = 2
           /\ \E c \in ChildLeaves(module, x) :
                  /\ module.arg[c] \notin Range(module.key[x])
                  /\ \E t \in DOMAIN entries :
                         IsNodeEntry(module, entries[t], c)

(* C9: for a list or leaf-list item identified by the default key, the     *)
(* get-<item-name> RPC has an input that uses a grouping named             *)
(* <item-name>-id, the item name composed with the key suffix.             *)
C9_DefaultKeyGroupingName ==
    (rpcs # <<>> /\ LastOperation = READ_OP) =>
        \A x \in DataNodes(module) :
            (IsItemEntry(module, LastEntry, x) /\ find_keys(module, x) = <<>>)
            => LastRpc.input =
                   <<uses(compose(<<find_item_name(module, x), key_suffix>>))>>

(* How much of the path of an entry of node x ends at its last keyed list  *)
(* item: the whole path for the entry of an item of x, else the path down  *)
(* to the innermost list above x; 0 when no list item is on the path.      *)
KeyedUpTo(m, e, x) ==
    IF IsItemEntry(m, e, x) THEN Len(e.path)
    ELSE LET anc == Ancestors(m, x)
             lists == {t \in DOMAIN anc : is_list(m, anc[t])}
         IN  IF lists = {} THEN 0
             ELSE CHOOSE t \in lists : \A u \in lists : u <= t

KeyedPrefix(m, e, x) == SubSeq(e.path, 1, KeyedUpTo(m, e, x))

(* C10: two entries whose paths agree up to and including their last keyed *)
(* list item get the same identification grouping name, the path truncated *)
(* at the last keyed item plus the identification suffix; the grouping is  *)
(* in the derived module exactly once, with the key leaves of both.        *)
C10_SharedIdentificationGrouping ==
    Scanned =>
    \A t, u \in DOMAIN entries : \A x, y \in DataNodes(module) :
        (/\ IsEntryOf(module, entries[t], x)
         /\ IsEntryOf(module, entries[u], y)
         /\ KeyedUpTo(module, entries[t], x) > 0
         /\ KeyedUpTo(module, entries[u], y) > 0
         /\ KeyedPrefix(module, entries[t], x) = KeyedPrefix(module, entries[u], y))
        => LET name == compose(KeyedPrefix(module, entries[t], x)
                               \o <<identification_suffix>>)
           IN  /\ define_id_grouping(entries[t]).name = name
               /\ define_id_grouping(entries[u]).name = name
               /\ Range(define_id_grouping(entries[t]).content)
                      = Range(define_id_grouping(entries[u]).content)
               /\ pc = "done" =>
                      /\ Cardinality({g \in DOMAIN groupings :
                                         groupings[g].name = name}) = 1
                      /\ \A g \in GroupingNamed(name) :
                             Range(g.content)
                                 = Range(define_id_grouping(entries[t]).content)

----------------------------------------------------------------------------
(* The keyed list items an entry of node x lies in, outermost first: the   *)
(* lists above x, and x itself for the entry of one of its items.          *)
KeyedChain(m, e, x) ==
    SelectSeq(Ancestors(m, x), LAMBDA y : is_list(m, y))
    \o (IF IsItemEntry(m, e, x) THEN <<x>> ELSE <<>>)

LeafNamesOf(content) == {content[t].arg : t \in DOMAIN content}

(* C11: in the identification grouping of an entry under two or more keyed *)
(* list items, the key leaves of every item but the last are renamed to    *)
(* compose(item name, key name); those of the last keep their names.       *)
C11_PredecessorKeysPrefixed ==
    Scanned =>
    \A t \in DOMAIN entries : \A x \in DataNodes(module) :
        LET chain == KeyedChain(module, entries[t], x)
            names == LeafNamesOf(define_id_grouping(entries[t]).content)
        IN  (IsEntryOf(module, entries[t], x) /\ Len(chain) >= 2) =>
                /\ \A p \in 1..(Len(chain) - 1) :
                       \A k \in Range(KeysOf(module, chain[p])) :
                           compose(<<find_item_name(module, chain[p]), k.arg>>)
                               \in names
                /\ \A k \in Range(KeysOf(module, Last(chain))) : k.arg \in names

RECURSIVE KeyTotal(_, _)
KeyTotal(m, chain) ==
    IF chain = <<>> THEN 0
    ELSE Len(KeysOf(m, Head(chain))) + KeyTotal(m, Tail(chain))

(* C12: the content of an entry's identification grouping is exactly the   *)
(* key leaves that locate it: every key leaf of every keyed item on its    *)
(* path once, nothing else, and no two leaves of the same name.            *)
C12_IdContentExact ==
    Scanned =>
    \A t \in DOMAIN entries : \A x \in DataNodes(module) :
        LET chain == KeyedChain(module, entries[t], x)
            content == define_id_grouping(entries[t]).content
        IN  (IsEntryOf(module, entries[t], x) /\ chain # <<>>) =>
                /\ Len(content) = KeyTotal(module, chain)
                /\ \A a, b \in DOMAIN content :
                       a # b => content[a].arg # content[b].arg
                /\ \A a \in DOMAIN content :
                       /\ content[a].keyword = "leaf"
                       /\ \E p \in DOMAIN chain :
                              \E k \in Range(KeysOf(module, chain[p])) :
                                  content[a].arg \in
                                      {k.arg,
                                       compose(<<find_item_name(module, chain[p]),
                                                 k.arg>>)}

(* C13: the request grouping of every CHANGE and ITEM_ADD RPC carries the  *)
(* entry's data payload, together with the parent keys when the entry has  *)
(* parent_keys.                                                            *)
C13_ChangeRequestCarriesData ==
    (rpcs # <<>> /\ LastOperation \in {CHANGE_OP, ITEM_ADD_OP}) =>
        /\ LastRpc.input # <<>>
        /\ LastEntry.payload \in Walk(LastRpc.input)
        /\ \A p \in DOMAIN LastEntry.parent_keys :
               Range(LastEntry.parent_keys[p][2]) \subseteq Walk(LastRpc.input)

C15_RpcNamesUnique ==
    \A r, q \in DOMAIN rpcs : r # q => rpcs[r].name # rpcs[q].name

KeyNamesOf(keys) == [t \in DOMAIN keys |-> keys[t].arg]

----------------------------------------------------------------------------
(* The atomic nodes, the nodes below a node, and whether the entry of x    *)
(* passes the key filter of every list above it.                           *)
AtomicNodes(m) ==
    {x \in DataNodes(m) :
        m.kw[x] \in {"leaf", "anyxml"} \/ ATOMIC \in m.mods[x]}

Descendants(m, x) ==
    {y \in DataNodes(m) : x \in Range(Ancestors(m, y))}

NotKeyNamed(m, x, name) ==
    \A y \in EnclosingLists(m, x) : name \notin LeafNamesOf(KeysOf(m, y))

(* C17: for an atomic node (a leaf, an anyxml, or a node with the atomic   *)
(* modifier, with or without include) scan returns exactly one entry, with *)
(* path [node name] and the node as payload; no descendant gets an entry,  *)
(* and an atomic list or leaf-list gets READ and CHANGE for the collection *)
(* and no item entry.                                                      *)
C17_AtomicSingleEntry ==
    Scanned =>
    \A x \in AtomicNodes(module) :
        /\ Len(scan(module, x)) = 1
        /\ scan(module, x)[1].path = <<module.arg[x]>>
        /\ scan(module, x)[1].payload = Statement(module, x)
        /\ scan(module, x)[1].own_keys = <<>>
        /\ scan(module, x)[1].operations =
               IF module.ro[x] THEN <<READ_OP>> ELSE <<READ_OP, CHANGE_OP>>
        /\ \A t \in DOMAIN entries :
               /\ ~IsItemEntry(module, entries[t], x)
               /\ \A y \in Descendants(module, x) :
                      ~IsEntryOf(module, entries[t], y)
        /\ (Descended(module, x) /\ NotKeyNamed(module, x, module.arg[x]))
           => /\ Cardinality({t \in DOMAIN entries :
                     IsNodeEntry(module, entries[t], x)}) = 1
              /\ \A t \in DOMAIN entries :
                     IsNodeEntry(module, entries[t], x)
                     => entries[t].operations =
                            IF ReadOnlyChain(module, x) THEN <<READ_OP>>
                            ELSE <<READ_OP, CHANGE_OP>>

(* A scan of a module with a list that carries atomic and include and has  *)
(* children.                                                               *)
C17_Witness ==
    /\ Scanned
    /\ \E x \in AtomicNodes(module) :
           /\ {ATOMIC, INCLUDE} \subseteq module.mods[x]
           /\ module.kw[x] = "list"
           /\ Descendants(module, x) # {}
           /\ \E t \in DOMAIN entries : IsNodeEntry(module, entries[t], x)

(* The containers and lists that carry include and not atomic, and the     *)
(* module with the include modifier taken off x.                           *)
IncludedNodes(m) ==
    {x \in DataNodes(m) :
        /\ m.kw[x] \in {"container", "list"}
        /\ INCLUDE \in m.mods[x]
        /\ ATOMIC \notin m.mods[x]}

WithoutInclude(m, x) == [m EXCEPT !.mods[x] = @ \ {INCLUDE}]

(* C18: a container or list with include and without atomic yields a       *)
(* whole-node entry, path [node name], READ and CHANGE (READ alone when    *)
(* read-only), and after it the entries its children yield, the same as    *)
(* without the modifier; the data grouping of the whole-node entry holds   *)
(* the node itself.                                                        *)
C18_IncludeWholeAndChildren ==
    Scanned =>
    \A x \in IncludedNodes(module) :
        LET found == scan(module, x)
            whole == {t \in DOMAIN entries : IsNodeEntry(module, entries[t], x)}
        IN  /\ found # <<>>
            /\ found[1].path = <<module.arg[x]>>
            /\ found[1].payload = Statement(module, x)
            /\ found[1].own_keys = <<>>
            /\ found[1].operations =
                   IF module.ro[x] THEN <<READ_OP>> ELSE <<READ_OP, CHANGE_OP>>
            /\ Tail(found) = scan(WithoutInclude(module, x), x)
            /\ \A c \in Range(i_children(module, x)) :
                   (/\ c \in AtomicNodes(module)
                    /\ ~(is_list(module, x) /\ is_atomic_item(module, x))
                    /\ module.arg[c] \notin LeafNamesOf(KeysOf(module, x)))
                   => \E t \in 2..Len(found) :
                          /\ found[t].path =
                                 <<Segment(module, x), module.arg[c]>>
                          /\ found[t].payload = Statement(module, c)
            /\ Descended(module, x) =>
                   /\ Cardinality(whole) = 1
                   /\ \A t \in whole :
                          /\ entries[t].operations =
                                 IF ReadOnlyChain(module, x) THEN <<READ_OP>>
                                 ELSE <<READ_OP, CHANGE_OP>>
                          /\ \A u \in DOMAIN entries :
                                 (\/ IsItemEntry(module, entries[u], x)
                                  \/ \E y \in Descendants(module, x) :
                                         IsEntryOf(module, entries[u], y))
                                 => t < u
                          /\ pc = "done" =>
                                 /\ GroupingNamed(data_group(entries[t])) # {}
                                 /\ \A g \in GroupingNamed(data_group(entries[t])) :
                                        g.content = <<Statement(module, x)>>

(* A finished run on a module with an included list whose child has an     *)
(* entry of its own.                                                       *)
C18_Witness ==
    /\ pc = "done"
    /\ \E x \in IncludedNodes(module) :
           /\ module.kw[x] = "list"
           /\ Descended(module, x)
           /\ \E c \in Range(i_children(module, x)) : \E t \in DOMAIN entries :
                  IsNodeEntry(module, entries[t], c)

(* The lists and leaf-lists, and those whose items are entry points: the   *)
(* leaf-lists and the lists with atomic-item or include-item.              *)
Lists(m) == {x \in DataNodes(m) : m.kw[x] \in {"list", "leaf-list"}}

ItemLists(m) ==
    {x \in Lists(m) :
        \/ m.kw[x] = "leaf-list"
        \/ ATOMIC_ITEM \in m.mods[x]
        \/ INCLUDE_ITEM \in m.mods[x]}

DeclaredKeyNames(m, x) ==
    IF m.key[x] # <<>> THEN m.key[x] ELSE <<key_suffix>>

(* C19: scan_list emits an item entry if and only if the list is           *)
(* atomic-item or include-item (a leaf-list always is); the entry has path *)
(* [item_name] and own_keys equal to the declared key leaves in key order, *)
(* else the default key alone; scan_list gives no entry under the plural   *)
(* name.                                                                   *)
C19_ItemEntryIffItemList ==
    Scanned =>
    \A x \in Lists(module) :
        /\ \A read_only \in BOOLEAN :
               LET found == scan_list(module, x, read_only).entries
               IN  /\ found # <<>> <=> x \in ItemLists(module)
                   /\ \A t \in DOMAIN found :
                          /\ t = 1
                          /\ found[t].path = <<find_item_name(module, x)>>
                          /\ find_item_name(module, x) # module.arg[x]
                          /\ KeyNamesOf(found[t].own_keys)
                                 = DeclaredKeyNames(module, x)
                          /\ \A k \in DOMAIN found[t].own_keys :
                                 found[t].own_keys[k].keyword = "leaf"
                          /\ found[t].parent_keys = <<>>
                          /\ found[t].operations =
                                 IF read_only THEN <<READ_OP>>
                                 ELSE <<READ_OP, CHANGE_OP,
                                        ITEM_ADD_OP, ITEM_REMOVE_OP>>
        /\ (Descended(module, x) /\ ATOMIC \notin module.mods[x]) =>
               LET items == {t \in DOMAIN entries :
                                IsItemEntry(module, entries[t], x)}
               IN  /\ Cardinality(items) = IF x \in ItemLists(module) THEN 1
                                           ELSE 0
                   /\ \A t \in items :
                          KeyNamesOf(entries[t].own_keys)
                              = DeclaredKeyNames(module, x)

(* A scan of a module with an include-item list of two keys, whose item    *)
(* has an entry.                                                           *)
C19_Witness ==
    /\ Scanned
    /\ \E x \in ItemLists(module) :
           /\ module.kw[x] = "list"
           /\ INCLUDE_ITEM \in module.mods[x]
           /\ Len(module.key[x]) = 2
           /\ \E t \in DOMAIN entries : IsItemEntry(module, entries[t], x)

(* The lists that are not atomic and have children to descend to.          *)
OpenLists(m) ==
    {x \in DataNodes(m) : m.kw[x] = "list" /\ ATOMIC \notin m.mods[x]}

(* C20: the descent into a list's children is pruned if and only if the    *)
(* list is atomic-item.  An atomic-item list yields no entry for a child;  *)
(* an include-item list and a list with no modifier yield an entry for     *)
(* each child that is not a key, with the list's keys in parent_keys under *)
(* the item name.                                                          *)
C20_PruneIffAtomicItem ==
    Scanned =>
    /\ \A x \in Lists(module) : \A read_only \in BOOLEAN :
           scan_list(module, x, read_only).prune
               <=> (module.kw[x] = "leaf-list"
                        \/ ATOMIC_ITEM \in module.mods[x])
    /\ \A x \in OpenLists(module) :
           LET found == scan(module, x)
               item == find_item_name(module, x)
           IN  IF ATOMIC_ITEM \in module.mods[x]
               THEN /\ \A t \in DOMAIN found : Len(found[t].path) = 1
                    /\ \A t \in DOMAIN entries :
                           \A y \in Descendants(module, x) :
                               ~IsEntryOf(module, entries[t], y)
               ELSE /\ \A t \in DOMAIN found :
                           Len(found[t].path) > 1 =>
                               /\ found[t].path[1] = item
                               /\ KeyNamesOf(DictGet(found[t].parent_keys, item))
                                      = DeclaredKeyNames(module, x)
                    /\ \A c \in Range(i_children(module, x)) :
                           c \in AtomicNodes(module) =>
                               LET mine == {t \in DOMAIN found :
                                               /\ found[t].path
                                                      = <<item, module.arg[c]>>
                                               /\ found[t].payload
                                                      = Statement(module, c)}
                               IN  Cardinality(mine) =
                                       IF module.arg[c] \in
                                              LeafNamesOf(KeysOf(module, x))
                                       THEN 0 ELSE 1
                    /\ module.par[x] = 0 =>
                           \A c \in Range(i_children(module, x)) :
                               (/\ c \in AtomicNodes(module)
                                /\ module.arg[c] \notin
                                       LeafNamesOf(KeysOf(module, x)))
                               => \E t \in DOMAIN entries :
                                      /\ IsNodeEntry(module, entries[t], c)
                                      /\ entries[t].parent_keys
                                             = <<<<item, KeysOf(module, x)>>>>

(* A scan of a module with an atomic-item list that has a key leaf and a   *)
(* further child: the item has an entry.                                   *)
C20_Witness ==
    /\ Scanned
    /\ \E x \in OpenLists(module) :
           /\ ATOMIC_ITEM \in module.mods[x]
           /\ module.key[x] # <<>>
           /\ \E c \in Range(i_children(module, x)) :
                  module.arg[c] \notin Range(module.key[x])
           /\ \E t \in DOMAIN entries : IsItemEntry(module, entries[t], x)

----------------------------------------------------------------------------
(* Modules with `item-name` statements: a module of the family above in    *)
(* which some lists and leaf-lists name their items, an `item-name`        *)
(* counting among the annotations of the module.                           *)

ItemNames == <<"u", "v", "w">>

WithItemNames(m, named) ==
    [m EXCEPT !.item_name =
        [x \in DOMAIN m.item_name |->
            IF x \in named THEN <<ItemNames[x]>> ELSE <<>>]]

InitNamed ==
    /\ \E par \in Shapes :
       \E kw \in Keywords(par) :
       \E annotations \in Annotations(kw) :
       \E keycount \in KeyCounts(kw) :
       \E named \in SUBSET {x \in Nodes : kw[x] \in {"list", "leaf-list"}} :
            /\ named # {}
            /\ Cardinality(annotations) + Cardinality(named) <= MaxAnnotations
            /\ \E validated \in BOOLEAN :
                   module = [WithItemNames(
                                 Module(par, kw, annotations, keycount), named)
                             EXCEPT !.validated = validated]
    /\ pc = "scan"
    /\ first_entries = <<>>
    /\ entries = <<>>
    /\ i = 0
    /\ j = 0
    /\ groupings = <<>>
    /\ already_created = <<>>
    /\ rpcs = <<>>
    /\ raised = ""
    /\ NewRegistry
    /\ NoCopies

SpecNamed == InitNamed /\ [][Next]_vars

(* The siblings of x, x left out. *)
Siblings(m, x) == {y \in DataNodes(m) : m.par[y] = m.par[x] /\ y # x}

(* A sibling of x puts `name` where x puts its own segment in a path.      *)
SiblingNamed(m, x, name) ==
    \E y \in Siblings(m, x) : m.arg[y] = name \/ Segment(m, y) = name

(* e lies at or below the place of x in the tree. *)
Under(m, e, x) ==
    /\ Len(e.path) > Len(PrefixOf(m, x))
    /\ SubSeq(e.path, 1, Len(PrefixOf(m, x))) = PrefixOf(m, x)

(* C21: the item name of a list or leaf-list is the value of its           *)
(* `item-name` statement when it has one and the singular of the list name *)
(* otherwise; with the statement, every RPC and grouping made for the item *)
(* has the annotated name and none has the singular of the list name.      *)
C21_ItemNameAnnotation ==
    Scanned =>
    \A x \in Lists(module) :
        LET annotated == module.item_name[x]
            singular == singularize(module.arg[x])
            item == IF annotated # <<>> THEN annotated ELSE singular
            depth == Len(PrefixOf(module, x)) + 1
        IN  /\ find_item_name(module, x) = item
            /\ \A read_only \in BOOLEAN :
                   LET out == scan_list(module, x, read_only)
                   IN  /\ out.accessor_path = <<item>>
                       /\ \A t \in DOMAIN out.entries :
                              /\ out.entries[t].path = <<item>>
                              /\ out.entries[t].payload.arg = item
            /\ (annotated # <<>> /\ ~SiblingNamed(module, x, singular)) =>
                   /\ \A t \in DOMAIN entries :
                          Under(module, entries[t], x)
                              => entries[t].path[depth] # singular
                   /\ module.par[x] = 0 =>
                          /\ \A t \in DOMAIN rpcs :
                                 SubSeq(rpcs[t].name, 3, 2 + Len(singular))
                                     # singular
                          /\ \A t \in DOMAIN groupings :
                                 SubSeq(groupings[t].name, 1, Len(singular))
                                     # singular
            /\ (/\ annotated # <<>>
                /\ pc = "done"
                /\ module.par[x] = 0
                /\ ~is_atomic(module, x)
                /\ is_atomic_item(module, x) \/ is_included_item(module, x)) =>
                   /\ \E t \in DOMAIN rpcs :
                          rpcs[t].name = compose(<<READ_OP, annotated>>)
                   /\ \E t \in DOMAIN groupings :
                          groupings[t].name
                              = compose(<<annotated, data_suffix>>)
                   /\ \E t \in DOMAIN groupings :
                          groupings[t].name
                              = compose(<<annotated, response_suffix>>)

(* transform has finished on a module whose top-level list names its items *)
(* and yields an item entry: the RPC `get-<item name>` is there.           *)
C21_Witness ==
    /\ pc = "done"
    /\ \E x \in Lists(module) :
           /\ module.item_name[x] # <<>>
           /\ module.kw[x] = "list"
           /\ module.par[x] = 0
           /\ INCLUDE_ITEM \in module.mods[x]
           /\ \E t \in DOMAIN rpcs :
                  rpcs[t].name = compose(<<READ_OP, module.item_name[x]>>)

----------------------------------------------------------------------------
(* C22: a scan of a module root that was not validated fails at once with  *)
(* a NotValidatedError and yields no entry point.                          *)
C22_NotValidatedError ==
    ~module.validated =>
        /\ pc \in {"scan", "raised"}
        /\ first_entries = <<>> /\ entries = <<>>
        /\ pc = "raised" => raised = "NotValidatedError"

----------------------------------------------------------------------------
(* ImportRegistry: what the calls made so far were given and returned.     *)

(* The calls of add that returned. *)
Returned == {t \in DOMAIN calls : calls[t].call = "add" /\ calls[t].raised = ""}

(* The first call of add for `name` that returned. *)
FirstAdd(name) ==
    CHOOSE t \in Returned :
        /\ calls[t].name = name
        /\ \A u \in Returned : calls[u].name = name => t <= u

(* C23: add is idempotent per module name: every call that returns gives  *)
(* the prefix the first call that returned for that module name gave,      *)
(* whatever prefix is suggested, and by_name[name] never changes once set. *)
C23_AddIdempotent ==
    /\ \A t \in Returned :
           LET first == calls[FirstAdd(calls[t].name)]
           IN  /\ calls[t].returned = first.returned
               /\ DictHas(by_name, calls[t].name)
               /\ DictGet(by_name, calls[t].name)
                      = <<first.returned, first.revision>>
    /\ \A name \in ModuleNames :
           DictHas(last.before.by_name, name) =>
               DictGet(by_name, name) = DictGet(last.before.by_name, name)

(* A module was added twice with two different suggestions, a third call   *)
(* between the two, and both calls returned.                               *)
C23_Witness ==
    \E t \in Returned : \E u \in Returned :
        /\ t + 1 < u
        /\ calls[t].name = calls[u].name
        /\ calls[t].prefix # <<>> /\ calls[u].prefix # <<>>
        /\ calls[t].prefix # calls[u].prefix

(* C24: two different module names are never given the same prefix, and   *)
(* by_prefix maps every prefix add returned to the module it was returned  *)
(* for.                                                                    *)
C24_PrefixesDistinct ==
    /\ \A t \in Returned : \A u \in Returned :
           calls[t].name # calls[u].name
               => calls[t].returned # calls[u].returned
    /\ \A t \in Returned :
           /\ DictHas(by_prefix, calls[t].returned)
           /\ DictGet(by_prefix, calls[t].returned)[1] = calls[t].name

(* C25: add raises YangImportError exactly when the module is registered   *)
(* with a non-empty revision and the call gives a different non-empty      *)
(* revision; a call that raises leaves the registry as it was.             *)
C25_RaisesOnConflictOnly ==
    last.call = "add" =>
        LET registered ==
                IF DictHas(last.before.by_name, last.name)
                THEN DictGet(last.before.by_name, last.name)[2] ELSE ""
        IN  /\ last.raised = "YangImportError"
                   <=> (/\ registered # ""
                        /\ last.revision # ""
                        /\ registered # last.revision)
            /\ last.raised # "" => Registry = last.before

(* C26: a reserved prefix is never given to an import: a call of add that  *)
(* registers a module returns no prefix that was reserved before it.       *)
C26_ReservedNeverAssigned ==
    (/\ last.call = "add"
     /\ last.raised = ""
     /\ ~DictHas(last.before.by_name, last.name))
    => /\ last.returned \notin Range(last.before.prefixes_reserved)
       /\ DictHas(by_prefix, last.returned)

----------------------------------------------------------------------------
(* C27: EntryPoint.copy returns an independent value: no write in place to *)
(* the path, payload, operations, parent_keys, a key list in parent_keys   *)
(* or own_keys of the copy changes the original entry or a sibling entry.  *)
C27_CopyIndependent ==
    copied # NoEntry =>
        /\ Deref(heap, original) = before[1]
        /\ Deref(heap, sibling) = before[2]

----------------------------------------------------------------------------
(* y is a key leaf of the list that holds it: a child the list's `key`     *)
(* names, or one with the name of the default key.                         *)
IsKeyLeaf(m, y) ==
    /\ m.par[y] # 0
    /\ m.kw[m.par[y]] = "list"
    /\ m.arg[y] \in LeafNamesOf(KeysOf(m, m.par[y]))

(* C28: below a list the only entries dropped are those of the list's own  *)
(* key leaves; any other descendant the scanner descends to, one whose     *)
(* name is that of a key included, keeps its entry, with the keys of every *)
(* enclosing list in parent_keys.                                          *)
C28_OnlyKeyLeavesDropped ==
    Scanned =>
    \A y \in AtomicNodes(module) :
        (/\ EnclosingLists(module, y) # {}
         /\ Descended(module, y)
         /\ ~IsKeyLeaf(module, y))
        => \E t \in DOMAIN entries :
               /\ IsNodeEntry(module, entries[t], y)
               /\ \A x \in EnclosingLists(module, y) :
                      DictHas(entries[t].parent_keys,
                              find_item_name(module, x))

----------------------------------------------------------------------------
(* The (entry, operation) pairs of the loops of transform, in the order    *)
(* the loops reach them.                                                   *)
RECURSIVE Pairs(_)
Pairs(es) ==
    IF es = <<>> THEN <<>>
    ELSE [t \in DOMAIN Head(es).operations |->
             [entry |-> Head(es), operation |-> Head(es).operations[t]]]
         \o Pairs(Tail(es))

(* The place of an operation in the order READ, CHANGE, ITEM_ADD,          *)
(* ITEM_REMOVE.                                                            *)
OperationOrder(operation) ==
    CASE operation = READ_OP -> 1
      [] operation = CHANGE_OP -> 2
      [] operation = ITEM_ADD_OP -> 3
      [] operation = ITEM_REMOVE_OP -> 4

(* C29: transform emits one RPC for each (entry, operation) pair, named    *)
(* compose([operation] + path); the RPCs stand in the derived module in    *)
(* the scan order of their entries and, for one entry, in the order READ,  *)
(* CHANGE, ITEM_ADD, ITEM_REMOVE.                                          *)
C29_OneRpcPerPairInOrder ==
    Scanned =>
        LET pairs == Pairs(entries)
        IN  /\ entries = first_entries
            /\ Len(rpcs) <= Len(pairs)
            /\ pc = "done" => Len(rpcs) = Len(pairs)
            /\ \A t \in DOMAIN rpcs :
                   rpcs[t].name
                       = compose(<<pairs[t].operation>> \o pairs[t].entry.path)
            /\ \A t \in DOMAIN entries :
                   \A a \in DOMAIN entries[t].operations :
                   \A b \in DOMAIN entries[t].operations :
                       a < b => OperationOrder(entries[t].operations[a])
                                    < OperationOrder(entries[t].operations[b])

(* transform has finished on a module with two entries or more, one of     *)
(* them a list item with its four operations.                              *)
C29_Witness ==
    /\ pc = "done"
    /\ Len(entries) >= 2
    /\ \E t \in DOMAIN entries : Len(entries[t].operations) = 4
    /\ \E t \in DOMAIN entries : Len(entries[t].operations) = 2
    /\ Len(rpcs) >= 6

----------------------------------------------------------------------------
(* The grouping names the `uses` statements among stmts name.              *)
UsesIn(stmts) ==
    {stmts[t].arg : t \in {u \in DOMAIN stmts : stmts[u].keyword = "uses"}}

(* C30: at every point of transform each grouping named by a `uses` of an  *)
(* RPC's input or output, or of a grouping, was emitted before as a        *)
(* grouping of the derived module, and no grouping name is emitted twice.  *)
C30_UsesAfterGrouping ==
    /\ \A t \in DOMAIN rpcs :
           \A name \in UsesIn(rpcs[t].input \o rpcs[t].output) :
               \E u \in DOMAIN groupings : groupings[u].name = name
    /\ \A t \in DOMAIN groupings :
           \A name \in UsesIn(groupings[t].content) :
               \E u \in 1..(t - 1) : groupings[u].name = name
    /\ \A t \in DOMAIN groupings : \A u \in DOMAIN groupings :
           groupings[t].name = groupings[u].name => t = u

(* The RPC of ITEM_ADD on a list item was emitted: its output uses a       *)
(* response grouping that uses the identification grouping READ emitted.   *)
C30_Witness ==
    /\ rpcs # <<>>
    /\ LastOperation = ITEM_ADD_OP
    /\ \E t \in DOMAIN groupings :
           /\ groupings[t].name \in UsesIn(LastRpc.output)
           /\ id_group(LastEntry).name \in UsesIn(groupings[t].content)
           /\ \E u \in 1..(t - 1) :
                  groupings[u].name = id_group(LastEntry).name

====
